---- MODULE Spec2Model ----
(***************************************************************************)
(* Model of src/app.py: the "ask_form" submit handler of the Dobby cooking *)
(* assistant and the helpers it calls.  One script run of the Streamlit    *)
(* page renders the chat column from the session state, and, when the form *)
(* was submitted with a non-empty text, runs the handler: analysis by the  *)
(* language model, routing by intent, one recipe search, and one detail    *)
(* fetch per collected summary.                                            *)
(*                                                                         *)
(* Texts are sequences of tokens.  The network is the environment: every   *)
(* call draws its response from a small set.                               *)
(***************************************************************************)
EXTENDS Integers, Sequences, FiniteSets, TLC

\* ---------------------------------------------------------------- bounds
MaxGenerated == 5      \* a session is followed while generated is shorter than this

\* ---------------------------------------------------------------- values
None == "None"
MISSING == "MISSING"
FENCE == "FENCE"
LBRACE == "{"
RBRACE == "}"

\* st.text_input: the texts a user submits (non-empty, line 336)
UserInputs == {"potatoes"}

\* Texts the language model may answer the analysis prompt with, as tokens: a
\* code fence, braces (with the members of the object between them kept
\* apart, see JsonBodies), a JSON scalar ("1") and free text ("x").
RawOutputs ==
    {<<"x">>,                                 \* prose
     <<"1">>,                                 \* JSON, but no object
     <<LBRACE>>,                              \* cut off
     <<RBRACE, LBRACE>>,                      \* braces the wrong way round
     <<LBRACE, "x", RBRACE>>,                 \* braces around something that is no JSON
     <<LBRACE, RBRACE>>,                      \* the object alone
     <<"x", LBRACE, RBRACE, "x">>,            \* the object inside prose
     <<FENCE, "x", LBRACE, RBRACE>>,          \* a fence that is not closed
     <<FENCE, "x", LBRACE, RBRACE, FENCE>>}   \* the object in a closed fence

\* Members of the JSON object the model may return between the braces.  A
\* MISSING intent stands for an absent key.
EmptyBody ==
    [intent |-> MISSING, ingredients |-> <<>>, dish |-> None,
     exclude |-> <<>>, message |-> <<>>]

\* Every intent with and without ingredients and dish; exclude is varied where
\* the handler reads it (line 359).
JsonBodies ==
    {b \in [intent : {MISSING, "find_recipe", "specific_recipe", "modify_recipe",
                      "general", "smalltalk"},
            ingredients : {<<>>, <<"beef">>},
            dish : {None, "stew"},
            exclude : {<<>>, <<"nuts">>},
            message : {<<"msg">>}] :
        b.exclude # <<>> =>
            /\ b.intent \in {MISSING, "find_recipe", "modify_recipe"}
            /\ b.ingredients # <<>>}

\* ------------------------------------------------------ string helpers
\* str.find / str.rfind on tokens; 0 plays the role of the -1 of Python.
Find(s, tok) ==
    IF \E i \in 1..Len(s) : s[i] = tok
    THEN CHOOSE i \in 1..Len(s) : s[i] = tok /\ \A j \in 1..(i - 1) : s[j] # tok
    ELSE 0

RFind(s, tok) ==
    IF \E i \in 1..Len(s) : s[i] = tok
    THEN CHOOSE i \in 1..Len(s) : s[i] = tok /\ \A j \in (i + 1)..Len(s) : s[j] # tok
    ELSE 0

\* cleaned.split(FENCE, 2)[-1] for a text that starts with a fence
split_fence_last(cleaned) ==
    LET rest == Tail(cleaned)
        j == Find(rest, FENCE)
    IN  IF j = 0 THEN rest ELSE SubSeq(rest, j + 1, Len(rest))

\* json.loads on the extracted text: an object, another JSON value, or an error
json_loads(json_text) ==
    IF json_text = <<LBRACE, RBRACE>> THEN "object"
    ELSE IF json_text = <<"1">> THEN "scalar"
    ELSE "error"

\* ------------------------------------------------ language-model client
\* The provider's answer to one call of the chat endpoint.
LMResponse(timeout, status, text, body) ==
    [timeout |-> timeout, status |-> status, text |-> text, body |-> body]

LMFailures ==
    {LMResponse(TRUE, 0, <<>>, EmptyBody),
     LMResponse(FALSE, 400, <<>>, EmptyBody),
     LMResponse(FALSE, 500, <<>>, EmptyBody),
     LMResponse(FALSE, 200, <<>>, EmptyBody)}


\* Responses to the generic assistant prompt.
AnswerResponses ==
    LMFailures \cup {LMResponse(FALSE, 200, t, EmptyBody) : t \in {<<"x">>, <<"**", "x">>}}

VARIABLES
    FIREWORKS_API_KEY,  \* module constant read from the environment (line 13)
    past,               \* st.session_state["past"]
    generated,          \* st.session_state["generated"], each entry tagged with its origin
    chat,               \* rows of the chat column as rendered by the last script run
    state,              \* position of the submit handler
    user_input,         \* text of the form
    parsed,             \* the intent the handler works with, until it is routed
    analysis,           \* how analyze_user_text ended in this run
    answer,             \* the text of the generic answer (line 374)
    recipes_meta,       \* summaries collected from the search
    pos,                \* index of the next summary in the detail loop
    lmCalls,            \* calls of call_fireworks_chat made by this run
    lastCall,           \* the recipe client call made last, with its arguments
    searchCalls,        \* recipe searches made by this run, with their results
    fetchCalls,         \* detail fetches made by this run
    st_error            \* st.error boxes shown by this run

vars == <<FIREWORKS_API_KEY, past, generated, chat, state, user_input, parsed,
          analysis, answer, recipes_meta, pos, lmCalls, lastCall, searchCalls,
          fetchCalls, st_error>>

\* call_fireworks_chat that retries twice more after a timeout
call_fireworks_chat_retry(resp) ==
    IF FIREWORKS_API_KEY = ""
    THEN [raised |-> TRUE, attempts |-> 0, error |-> "no key", text |-> <<>>]
    ELSE IF resp.timeout
    THEN [raised |-> TRUE, attempts |-> 3, error |-> "timeout", text |-> <<>>]
    ELSE IF resp.status # 200
    THEN [raised |-> TRUE, attempts |-> 1, error |-> "status", text |-> <<>>]
    ELSE IF resp.text = <<>>
    THEN [raised |-> TRUE, attempts |-> 1, error |-> "no text", text |-> <<>>]
    ELSE [raised |-> FALSE, attempts |-> 1, error |-> None, text |-> resp.text]

\* call_fireworks_chat: one requests.post; every failure raises
call_fireworks_chat(resp) ==
    IF FIREWORKS_API_KEY = ""
    THEN [raised |-> TRUE, attempts |-> 0, error |-> "no key", text |-> <<>>]
    ELSE IF resp.timeout
    THEN [raised |-> TRUE, attempts |-> 1, error |-> "timeout", text |-> <<>>]
    ELSE IF resp.status # 200
    THEN [raised |-> TRUE, attempts |-> 1, error |-> "status", text |-> <<>>]
    ELSE IF resp.text = <<>>
    THEN [raised |-> TRUE, attempts |-> 1, error |-> "no text", text |-> <<>>]
    ELSE [raised |-> FALSE, attempts |-> 1, error |-> None, text |-> resp.text]

\* ------------------------------------------------------- intent parser
\* the dict built in the except branches (lines 81 and 344), with no ingredient
FallbackIntent_empty(user_text) ==
    [intent |-> "find_recipe", ingredients |-> <<>>, dish |-> None,
     exclude |-> <<>>, message |-> <<"Searching for recipes based on: ", user_text>>]

\* the dict built in the except branches (lines 81 and 344)
FallbackIntent(user_text) ==
    [intent |-> "find_recipe", ingredients |-> <<user_text>>, dish |-> None,
     exclude |-> <<>>, message |-> <<"Searching for recipes based on: ", user_text>>]

\* the setdefault calls of lines 82-86 on the object just parsed
apply_defaults(body) ==
    [body EXCEPT !.intent = IF @ = MISSING THEN "find_recipe" ELSE @]

\* the text handed to json.loads (lines 72-77)
extract_json_text(raw) ==
    LET cleaned == IF Len(raw) > 0 /\ raw[1] = FENCE THEN split_fence_last(raw) ELSE raw
        first_brace == Find(cleaned, LBRACE)
        last_brace == RFind(cleaned, RBRACE)
    IN  IF first_brace # 0 /\ last_brace # 0
        THEN SubSeq(cleaned, first_brace, last_brace)
        ELSE cleaned

\* analyze_user_text: the call of the model is outside the try, json.loads is
\* inside it, and setdefault is again outside it.
analyze_user_text(user_text, resp) ==
    LET c == call_fireworks_chat(resp)
        loaded == json_loads(extract_json_text(c.text))
    IN  IF c.raised
        THEN [raised |-> TRUE, value |-> EmptyBody, call |-> c, loaded |-> "none"]
        ELSE IF loaded = "error"
        THEN [raised |-> FALSE, value |-> FallbackIntent(user_text), call |-> c,
              loaded |-> loaded]
        ELSE IF loaded = "scalar"
        THEN [raised |-> TRUE, value |-> EmptyBody, call |-> c, loaded |-> loaded]
        ELSE [raised |-> FALSE, value |-> apply_defaults(resp.body), call |-> c,
              loaded |-> loaded]


\* Responses to the analysis prompt: a failure, or a text, with the members of
\* the object it holds when json.loads finds one.
AnalysisResponses ==
    LMFailures
    \cup UNION {{LMResponse(FALSE, 200, t, b) :
                   b \in IF json_loads(extract_json_text(t)) = "object"
                         THEN JsonBodies ELSE {EmptyBody}} : t \in RawOutputs}

\* ------------------------------------------------------- recipe client
\* The i-th summary of the provider's list; ids repeat.
SummaryAt(i) ==
    LET id == (i + 1) \div 2
    IN  [id |-> id, title |-> ToString(id),
         image |-> IF id % 2 = 1 THEN "img" ELSE None]

\* What a search call ends with: an exception (no key, HTTP status, transport)
\* or the list of summaries the provider chose to return.
SearchResponses(room) ==
    {[raised |-> TRUE, results |-> <<>>]}
    \cup {[raised |-> FALSE, results |-> [i \in 1..n |-> SummaryAt(i)]] :
            n \in 0..room}

NoCall ==
    [op |-> "none", ingredients |-> <<>>, exclude |-> <<>>, query |-> None,
     number |-> 0, id |-> 0]

\* spoon_search_by_ingredients(ingredients, exclude=exclude, number=number)
ByIngredients(ingredients, exclude, number) ==
    [op |-> "findByIngredients", ingredients |-> ingredients, exclude |-> exclude,
     query |-> None, number |-> number, id |-> 0]

\* spoon_search_by_query(query, number=number)
ByQuery(query, number) ==
    [op |-> "complexSearch", ingredients |-> <<>>, exclude |-> <<>>,
     query |-> query, number |-> number, id |-> 0]

\* spoon_get_recipe_information(recipe_id)
Information(recipe_id) ==
    [op |-> "information", ingredients |-> <<>>, exclude |-> <<>>, query |-> None,
     number |-> 0, id |-> recipe_id]

\* routing with the dish search asking for three results
route_three(intent, ingredients, exclude, dish, text) ==
    IF intent \in {"find_recipe", "modify_recipe"}
    THEN IF ingredients # <<>>
         THEN ByIngredients(ingredients, exclude, 3)
         ELSE ByQuery(IF dish # None THEN dish ELSE text, 3)
    ELSE IF intent = "specific_recipe"
    THEN ByQuery(IF dish # None THEN dish ELSE text, 3)
    ELSE NoCall

\* the if/elif/else of lines 357-377: which search the handler calls
route(intent, ingredients, exclude, dish, text) ==
    IF intent \in {"find_recipe", "modify_recipe"}
    THEN IF ingredients # <<>>
         THEN ByIngredients(ingredients, exclude, 3)
         ELSE ByQuery(IF dish # None THEN dish ELSE text, 3)
    ELSE IF intent = "specific_recipe"
    THEN ByQuery(IF dish # None THEN dish ELSE text, 1)
    ELSE NoCall

\* collecting only the first number summaries
collect_meta_capped(results, number) ==
    SubSeq(results, 1, IF Len(results) < number THEN Len(results) ELSE number)

\* the for loops of lines 360-371: one dict per result, whatever number was
collect_meta(results, number) ==
    [i \in 1..Len(results) |->
        [id |-> results[i].id, title |-> results[i].title, image |-> results[i].image]]

\* ------------------------------------------------------------ transcript
Entry(turn, kind, id, text) ==
    [turn |-> turn, kind |-> kind, id |-> id, text |-> text]

\* format_recipe_for_chat: the title line and the ingredients heading are
\* always there
format_recipe_for_chat(info) ==
    <<"**", info.title, "**", "**Ingredients:**">>

\* an except branch of the search that reports into the transcript
search_except_append(turn) ==
    <<Entry(turn, "error", 0, <<"Spoonacular search error">>)>>

\* what the except branch of lines 378-379 appends to generated: nothing
search_except(turn) ==
    <<>>

\* an else branch that appends a placeholder when the model call failed
general_answer_always(c, turn) ==
    IF c.raised
    THEN <<Entry(turn, "answer", 0, <<"Dobby error">>)>>
    ELSE <<Entry(turn, "answer", 0, c.text)>>

\* what the else branch of lines 373-377 appends to generated
general_answer(c, turn) ==
    IF c.raised THEN <<>> ELSE <<Entry(turn, "answer", 0, c.text)>>

\* a loop body that drops the recipe whose fetch failed
detail_entry_skip(meta, ok, turn) ==
    IF ok
    THEN <<Entry(turn, "recipe", meta.id,
                 (IF meta.image # None THEN <<"![", meta.image>> ELSE <<>>)
                 \o format_recipe_for_chat([title |-> meta.title]))>>
    ELSE <<>>

\* a loop body that writes the recipe from the summary when the fetch failed
detail_entry_fabricate(meta, ok, turn) ==
    <<Entry(turn, "recipe", meta.id,
            (IF meta.image # None THEN <<"![", meta.image>> ELSE <<>>)
            \o format_recipe_for_chat([title |-> meta.title]))>>

\* the loop body of lines 384-391: one entry per summary
detail_entry(meta, ok, turn) ==
    IF ok
    THEN <<Entry(turn, "recipe", meta.id,
                 (IF meta.image # None THEN <<"![", meta.image>> ELSE <<>>)
                 \o format_recipe_for_chat([title |-> meta.title]))>>
    ELSE <<Entry(turn, "could_not_fetch", meta.id,
                 <<"Could not fetch details for ", meta.title>>)>>

\* a loop without the try: the exception leaves the handler
detail_next_uncaught(ok) ==
    IF ok THEN "Detailing" ELSE "Crashed"

\* where the handler is after one iteration: the except of line 390 keeps
\* it in the loop
detail_next(ok) ==
    "Detailing"


\* ------------------------------------------------------------- chat column
\* the test of line 305 on a generated text
looks_like_recipe(text) ==
    \/ \E i \in 1..Len(text) : text[i] = "**Ingredients:**"
    \/ Len(text) > 0 /\ text[1] \in {"![", "**"}

\* lines 291-327: one row per past message, paired with generated[idx]
render_chat(p, g) ==
    [idx \in 1..Len(p) |->
        IF idx <= Len(g)
        THEN [user |-> p[idx],
              reply |-> IF looks_like_recipe(g[idx].text)
                        THEN <<g[idx].text[1]>> ELSE g[idx].text,
              turn |-> g[idx].turn]
        ELSE [user |-> p[idx], reply |-> <<>>, turn |-> 0]]

\* ----------------------------------------------------------------- actions
Turn == Len(past)

NoAnalysis == [raised |-> FALSE, loaded |-> "none"]

\* the record of one call of call_fireworks_chat
LoggedCall(prompt, c) ==
    [prompt |-> prompt, raised |-> c.raised, attempts |-> c.attempts, error |-> c.error]

Returned == {"Idle", "Done", "Errored"}

Init ==
    /\ FIREWORKS_API_KEY \in {"", "key"}
    /\ past = <<>>
    /\ generated = <<>>
    /\ chat = <<>>
    /\ state = "Idle"
    /\ user_input = ""
    /\ parsed = EmptyBody
    /\ analysis = NoAnalysis
    /\ answer = <<>>
    /\ recipes_meta = <<>>
    /\ pos = 1
    /\ lmCalls = <<>>
    /\ lastCall = NoCall
    /\ searchCalls = <<>>
    /\ fetchCalls = <<>>
    /\ st_error = <<>>

\* A script run without a submit: the page is rendered again.
Rerun ==
    /\ state \in Returned
    /\ chat' = render_chat(past, generated)
    /\ state' = "Idle"
    /\ user_input' = ""
    /\ parsed' = EmptyBody
    /\ analysis' = NoAnalysis
    /\ answer' = <<>>
    /\ recipes_meta' = <<>>
    /\ pos' = 1
    /\ lmCalls' = <<>>
    /\ lastCall' = NoCall
    /\ searchCalls' = <<>>
    /\ fetchCalls' = <<>>
    /\ st_error' = <<>>
    /\ UNCHANGED <<FIREWORKS_API_KEY, past, generated>>

\* A script run with a submit (lines 291-339): the chat is rendered from the
\* state before the handler, then the handler appends the text to past.
Submit ==
    /\ state \in Returned
    /\ Len(generated) < MaxGenerated
    /\ \E text \in UserInputs :
         /\ user_input' = text
         /\ past' = Append(past, text)
    /\ chat' = render_chat(past, generated)
    /\ state' = "Received"
    /\ parsed' = EmptyBody
    /\ analysis' = NoAnalysis
    /\ answer' = <<>>
    /\ recipes_meta' = <<>>
    /\ pos' = 1
    /\ lmCalls' = <<>>
    /\ lastCall' = NoCall
    /\ searchCalls' = <<>>
    /\ fetchCalls' = <<>>
    /\ st_error' = <<>>
    /\ UNCHANGED <<FIREWORKS_API_KEY, generated>>

\* Lines 341-347: the analysis, the fallback of the handler, the summary entry.
Analyze ==
    /\ state = "Received"
    /\ \E resp \in AnalysisResponses :
         LET a == analyze_user_text(user_input, resp)
             p == IF a.raised THEN FallbackIntent(user_input) ELSE a.value
         IN  /\ analysis' = [raised |-> a.raised, loaded |-> a.loaded]
             /\ parsed' = p
             /\ lmCalls' = Append(lmCalls, LoggedCall("analysis", a.call))
             /\ st_error' = IF a.raised THEN Append(st_error, "Analysis error") ELSE st_error
             /\ generated' = Append(generated, Entry(Turn, "summary", 0, p.message))
    /\ state' = "Analyzed"
    /\ UNCHANGED <<FIREWORKS_API_KEY, past, chat, user_input, answer, recipes_meta,
                   pos, lastCall, searchCalls, fetchCalls>>

\* Lines 350-379: routing, the search call and its except, or the generic
\* answer of the else branch.  Lines 350-353 are the last to read parsed: the
\* model forgets it here.
Search ==
    /\ state = "Analyzed"
    /\ LET call == route(parsed.intent, parsed.ingredients, parsed.exclude,
                         parsed.dish, user_input)
       IN  IF call.op # "none"
           THEN \E resp \in SearchResponses(MaxGenerated - Len(generated)) :
                  /\ lastCall' = call
                  /\ searchCalls' = Append(searchCalls,
                         [op |-> call.op, number |-> call.number,
                          raised |-> resp.raised, results |-> resp.results])
                  /\ recipes_meta' = collect_meta(resp.results, call.number)
                  /\ generated' = IF resp.raised
                                  THEN generated \o search_except(Turn) ELSE generated
                  /\ st_error' = IF resp.raised
                                 THEN Append(st_error, "Spoonacular search error")
                                 ELSE st_error
                  /\ state' = IF resp.raised THEN "Errored" ELSE "Detailing"
                  /\ UNCHANGED <<lmCalls, answer>>
           ELSE \E resp \in AnswerResponses :
                  LET c == call_fireworks_chat(resp)
                  IN  /\ lmCalls' = Append(lmCalls, LoggedCall("generic", c))
                      /\ answer' = c.text
                      /\ generated' = generated \o general_answer(c, Turn)
                      /\ st_error' = IF c.raised
                                     THEN Append(st_error, "Dobby error") ELSE st_error
                      /\ state' = "Done"
                      /\ UNCHANGED <<lastCall, searchCalls, recipes_meta>>
    /\ parsed' = EmptyBody
    /\ UNCHANGED <<FIREWORKS_API_KEY, past, chat, user_input, analysis, pos,
                   fetchCalls>>

\* One iteration of the loop of lines 383-391.
FetchDetail ==
    /\ state = "Detailing"
    /\ pos <= Len(recipes_meta)
    /\ \E ok \in BOOLEAN :
         /\ lastCall' = Information(recipes_meta[pos].id)
         /\ fetchCalls' = Append(fetchCalls, [id |-> lastCall'.id, ok |-> ok])
         /\ generated' = generated \o detail_entry(recipes_meta[pos], ok, Turn)
         /\ state' = detail_next(ok)
    /\ pos' = pos + 1
    /\ UNCHANGED <<FIREWORKS_API_KEY, past, chat, user_input, parsed, analysis,
                   answer, recipes_meta, lmCalls, searchCalls, st_error>>

\* The loop is over (or recipes_meta was empty, line 382): the handler returns.
Finish ==
    /\ state = "Detailing"
    /\ pos > Len(recipes_meta)
    /\ state' = "Done"
    /\ UNCHANGED <<FIREWORKS_API_KEY, past, generated, chat, user_input, parsed,
                   analysis, answer, recipes_meta, pos, lmCalls, lastCall, searchCalls,
                   fetchCalls, st_error>>

Next == Rerun \/ Submit \/ Analyze \/ Search \/ FetchDetail \/ Finish

Spec == Init /\ [][Next]_vars

\* The steps of the handler; at most one is enabled in a state.
Handler == Analyze \/ Search \/ FetchDetail \/ Finish

\* The handler is straight-line code on one thread, and every call it makes
\* returns or raises (requests timeouts of 120 and 30 seconds): the step it
\* has reached is taken.
FairSpec == Spec /\ WF_vars(Handler)

\* ------------------------------------------------------------ properties
\* the entries of generated appended by the turn in progress or just ended
TurnEntries == SelectSeq(generated, LAMBDA e : e.turn = Turn)

\* those after the summary entry
TurnTail == IF TurnEntries = <<>> THEN <<>> ELSE Tail(TurnEntries)

IsPrefix(s, t) == Len(s) <= Len(t) /\ SubSeq(t, 1, Len(s)) = s

Count(s, P(_)) == Len(SelectSeq(s, P))

SearchFailed == searchCalls # <<>> /\ searchCalls[1].raised

\* C1 as stated: when the search call fails, the turn appends the summary
\* entry plus one assistant entry describing the failure, fetches no detail
\* and ends Errored.
C1_ErrorEntryAppended ==
    SearchFailed =>
        /\ state = "Errored"
        /\ fetchCalls = <<>>
        /\ Len(TurnEntries) = 2
        /\ TurnEntries[1].kind = "summary"
        /\ TurnEntries[2].kind = "error"

\* C1 amended: when the search call fails, the turn ends Errored having
\* appended the summary entry and nothing else; the failure is shown by
\* st.error, no summary is collected and no detail is fetched.
C1_SearchFailureAppendsNothing ==
    SearchFailed =>
        /\ state = "Errored"
        /\ fetchCalls = <<>>
        /\ recipes_meta = <<>>
        /\ Len(TurnEntries) = 1
        /\ TurnEntries[1].kind = "summary"
        /\ generated[Len(generated)] = TurnEntries[1]
        /\ st_error[Len(st_error)] = "Spoonacular search error"

C1_Witness ==
    /\ state = "Errored"
    /\ SearchFailed
    /\ searchCalls[1].op = "findByIngredients"

\* C2 as stated: a turn whose intent is general makes no search and no detail
\* fetch and appends exactly one entry after the summary, whether the generic
\* model call succeeds or fails.
C2_AlwaysOneAnswer ==
    [][(state = "Analyzed" /\ parsed.intent = "general") =>
          /\ state' = "Done"
          /\ searchCalls' = <<>>
          /\ fetchCalls' = <<>>
          /\ Len(generated') = Len(generated) + 1
          /\ generated'[Len(generated')].kind = "answer"]_vars

\* C2 amended: a turn whose intent is general makes no search and no detail
\* fetch and ends Done; when the generic model call succeeds it appends one
\* entry holding the text the call returned, and when the call fails it
\* appends nothing and shows the failure by st.error.
C2_GeneralAnswerOnSuccess ==
    [][(state = "Analyzed" /\ parsed.intent = "general") =>
          /\ state' = "Done"
          /\ searchCalls' = <<>>
          /\ fetchCalls' = <<>>
          /\ recipes_meta' = <<>>
          /\ Len(lmCalls') = 2
          /\ lmCalls'[2].prompt = "generic"
          /\ IF lmCalls'[2].raised
             THEN /\ generated' = generated
                  /\ st_error'[Len(st_error')] = "Dobby error"
             ELSE /\ answer' # <<>>
                  /\ generated' = Append(generated, Entry(Turn, "answer", 0, answer'))
                  /\ st_error' = st_error]_vars

C2_Witness ==
    /\ state = "Done"
    /\ Len(lmCalls) = 2
    /\ lmCalls[2].prompt = "generic"
    /\ lmCalls[2].raised
    /\ ~lmCalls[1].raised
    /\ Len(TurnEntries) = 1

\* what the detail loop has appended agrees, entry by entry, with the
\* summaries of the search result and the outcome of each fetch
C3_EntriesFollowResults ==
    (state \in {"Detailing", "Done"} /\ searchCalls # <<>>) =>
        LET results == searchCalls[1].results
        IN  /\ Len(TurnTail) = Len(fetchCalls)
            /\ Len(TurnTail) = pos - 1
            /\ Len(TurnTail) <= Len(results)
            /\ state = "Done" => Len(TurnTail) = Len(results)
            /\ \A i \in 1..Len(TurnTail) :
                 /\ fetchCalls[i].id = results[i].id
                 /\ TurnTail[i].id = results[i].id
                 /\ IF fetchCalls[i].ok
                    THEN /\ TurnTail[i].kind = "recipe"
                         /\ \E j \in 1..Len(TurnTail[i].text) :
                              TurnTail[i].text[j] = results[i].title
                         /\ looks_like_recipe(TurnTail[i].text)
                    ELSE /\ TurnTail[i].kind = "could_not_fetch"
                         /\ TurnTail[i].text =
                              <<"Could not fetch details for ", results[i].title>>

\* C3: for a search result of N summaries and any set of failing fetches the
\* turn appends exactly N entries after the summary, the i-th for the i-th
\* summary: the formatted recipe when its fetch succeeded, a could-not-fetch
\* entry with its title when it failed; a failure does not stop the later
\* fetches, and no step removes or changes an entry already appended.
C3_OneEntryPerSummary ==
    /\ []C3_EntriesFollowResults
    /\ [][IsPrefix(generated, generated')]_vars

C3_Witness ==
    /\ state = "Done"
    /\ Len(fetchCalls) = 3
    /\ fetchCalls[1].ok
    /\ ~fetchCalls[2].ok
    /\ fetchCalls[3].ok
    /\ Len(TurnTail) = 3

\* C4 as stated: analyze_user_text never throws; on an error of the model
\* call or on malformed output it returns the fallback Intent.
C4_ParseNeverThrows ==
    state = "Analyzed" => ~analysis.raised

\* C4 amended: analyze_user_text returns the fixed fallback Intent when its
\* json.loads fails; when the model call raises, or the output is JSON but no
\* object, analyze_user_text itself raises and the submit handler catches it,
\* shows the failure by st.error and continues with the same fallback Intent.
\* Either way the turn goes on with ingredients = [userText] and the summary
\* "Searching for recipes based on: " + userText.
C4_FallbackIntent ==
    state = "Analyzed" =>
        /\ analysis.raised <=> (lmCalls[1].raised \/ analysis.loaded = "scalar")
        /\ analysis.raised => st_error = <<"Analysis error">>
        /\ ~analysis.raised => st_error = <<>>
        /\ (lmCalls[1].raised \/ analysis.loaded # "object") =>
              /\ parsed = [intent |-> "find_recipe", ingredients |-> <<user_input>>,
                           dish |-> None, exclude |-> <<>>,
                           message |-> <<"Searching for recipes based on: ", user_input>>]
              /\ generated[Len(generated)] =
                    Entry(Turn, "summary", 0,
                          <<"Searching for recipes based on: ", user_input>>)

C4_Witness ==
    /\ state = "Analyzed"
    /\ analysis.raised
    /\ lmCalls[1].error = "timeout"
    /\ parsed.ingredients = <<user_input>>

\* C5 as stated: a call that ends in a timeout was retried twice (three
\* attempts); a non-success status ends the call after one attempt.
C5_RetriesOnTimeout ==
    \A i \in 1..Len(lmCalls) :
        /\ lmCalls[i].attempts <= 3
        /\ lmCalls[i].error = "timeout" => lmCalls[i].attempts = 3
        /\ lmCalls[i].error = "status" => lmCalls[i].attempts = 1

\* C5 amended: call_fireworks_chat makes one attempt and never retries: a
\* timeout, like a non-success status or a response without text, ends the
\* call with an error after that single attempt (and with no attempt at all
\* when the key is not configured).
C5_SingleAttempt ==
    \A i \in 1..Len(lmCalls) :
        /\ lmCalls[i].attempts <= 1
        /\ lmCalls[i].error \in {"timeout", "status", "no text"} =>
              lmCalls[i].raised /\ lmCalls[i].attempts = 1
        /\ lmCalls[i].error = "no key" => lmCalls[i].raised /\ lmCalls[i].attempts = 0
        /\ ~lmCalls[i].raised => lmCalls[i].attempts = 1 /\ lmCalls[i].error = None
        /\ (lmCalls[i].error = "no key") <=> (FIREWORKS_API_KEY = "")

C5_Witness ==
    /\ Len(lmCalls) = 2
    /\ lmCalls[1].error = None
    /\ lmCalls[2].error = "timeout"


\* C6: the step out of Analyzed issues exactly one search call chosen by the
\* intent: find_recipe or modify_recipe with ingredients call
\* findByIngredients(ingredients, exclude, 3); without ingredients they call
\* complexSearch(dish if set, else the user text, 3); specific_recipe calls
\* complexSearch(dish if set, else the user text, 1); any other intent makes
\* no search.
C6_Routing ==
    /\ [](Len(searchCalls) <= 1)
    /\ [][state = "Analyzed" =>
          LET q == IF parsed.dish # None THEN parsed.dish ELSE user_input
              find == parsed.intent \in {"find_recipe", "modify_recipe"}
              searched(op, ingredients, exclude, query, number) ==
                  /\ Len(searchCalls') = 1
                  /\ searchCalls'[1].op = op
                  /\ searchCalls'[1].number = number
                  /\ lastCall' = [op |-> op, ingredients |-> ingredients,
                                  exclude |-> exclude, query |-> query,
                                  number |-> number, id |-> 0]
          IN  IF find /\ parsed.ingredients # <<>>
              THEN searched("findByIngredients", parsed.ingredients, parsed.exclude,
                            None, 3)
              ELSE IF find
              THEN searched("complexSearch", <<>>, <<>>, q, 3)
              ELSE IF parsed.intent = "specific_recipe"
              THEN searched("complexSearch", <<>>, <<>>, q, 1)
              ELSE searchCalls' = <<>> /\ lastCall' = NoCall]_vars

C6_Witness ==
    /\ state = "Detailing"
    /\ Len(searchCalls) = 1
    /\ lastCall = ByQuery("potatoes", 1)
    /\ searchCalls[1].number = 1

\* C7 as stated: the detail fetches and the per-recipe entries of a turn never
\* exceed the limit passed to the search, whatever the provider returns.
C7_CappedAtLimit ==
    searchCalls # <<>> =>
        /\ Len(fetchCalls) <= searchCalls[1].number
        /\ Len(TurnTail) <= searchCalls[1].number

\* C7 amended: the limit (3, or 1 for specific_recipe) is only the number the
\* handler asks the provider for; the handler collects every summary of the
\* list the provider returned and fetches them all, in the order received, so
\* the fetches and per-recipe entries of a finished turn are as many as the
\* summaries returned, beyond the limit when the provider returns more.
C7_EverySummaryFetched ==
    (searchCalls # <<>> /\ ~searchCalls[1].raised) =>
        LET results == searchCalls[1].results
        IN  /\ Len(recipes_meta) = Len(results)
            /\ Len(fetchCalls) <= Len(results)
            /\ \A i \in 1..Len(fetchCalls) : fetchCalls[i].id = results[i].id
            /\ state = "Done" =>
                  /\ Len(fetchCalls) = Len(results)
                  /\ Len(TurnEntries) = 1 + Len(results)

C7_Witness ==
    /\ state = "Done"
    /\ searchCalls # <<>>
    /\ Len(fetchCalls) > searchCalls[1].number
    /\ Len(TurnTail) = Len(fetchCalls)

C9_TurnTerminates ==
    /\ (state = "Received") ~> (state \in {"Done", "Errored"})
    /\ [](state \in {"Idle", "Received", "Analyzed", "Detailing", "Done", "Errored"})
    /\ [](state \in {"Done", "Errored"} =>
            /\ past # <<>>
            /\ past[Turn] = user_input
            /\ TurnEntries # <<>>
            /\ TurnEntries[1].kind = "summary")

C9_Witness ==
    /\ state = "Done"
    /\ lmCalls[1].raised
    /\ Len(fetchCalls) = 2
    /\ ~fetchCalls[1].ok
    /\ ~fetchCalls[2].ok

\* C10: the chat column shows under the k-th user message an entry that the
\* k-th turn appended.
C10_ChatPairsSameTurn ==
    \A k \in 1..Len(chat) : chat[k].turn = k

====
